---------------------------- MODULE Spec2Model ----------------------------
(***************************************************************************)
(* Model of youtube_url_stt: the Pipeline orchestrator (src/src/core/      *)
(* pipeline.py) with the collaborators it drives (downloader, preprocessor,*)
(* diarizer, transcriber, merger, cleanup_temp), run after run on one temp *)
(* directory (Spec), and, under specifications of their own, the pure      *)
(* functions ResultMerger.merge (SpecMerge), ResultMerger._find_speaker_at *)
(* (SpecFind), DeviceManager.detect / _select_by_vram (SpecDevice),        *)
(* AppConfig.resolve_hf_token (SpecToken), the label normalisation of      *)
(* SpeakerDiarizer.diarize (SpecDiarize) and                               *)
(* ProgressFrame.update_progress (SpecProgress).                           *)
(*                                                                         *)
(* Times are integers (tenths of a second), accelerator memory is in       *)
(* tenths of a GB, and a progress ratio r is the integer 100*r.  Texts are *)
(* sequences of one-character strings.                                     *)
(*                                                                         *)
(* Keyword binding of a constructor call and attribute lookup are modelled *)
(* as Python performs them: a keyword the callee does not declare raises   *)
(* TypeError, a method the class does not define raises AttributeError.    *)
(* pipeline.py:99-102 passes cancel_check to YouTubeDownloader, whose      *)
(* __init__ (downloader.py:35) declares progress_callback only.  The       *)
(* variable downloader_params holds the keywords the bound downloader      *)
(* class declares: Init draws it from the class as written in              *)
(* downloader.py and from a class declaring the keywords of the call site, *)
(* so that the stages behind the constructor call are exercised as well.   *)
(***************************************************************************)
EXTENDS Integers, Sequences, FiniteSets, TLC

\* ------------------------------------------------------------------ bounds
MaxSegments == 2      \* segments the recognition engine yields in one run
MaxHooks == 1         \* pyannote hook invocations during one inference
MaxMergeSegs == 2     \* transcript segments given to ResultMerger.merge
MaxSpans == 2         \* diarization spans given to ResultMerger.merge
MaxWords == 2         \* words of one transcript segment given to merge
MaxRuns == 2          \* pipeline runs made one after the other
MaxTurns == 3         \* speaker turns the diarization engine yields

\* ------------------------------------------------------- program constants
MAX_RETRIES == 3
RETRY_DELAY == 2

VARIABLES
  config,             \* PipelineConfig (the fields run() reads)
  has_local_model,    \* get_pyannote_config_path() names an existing file
  downloader_params,  \* keywords YouTubeDownloader.__init__ declares
  cancelled,          \* Pipeline._cancelled
  pc,                 \* position of the worker inside run()
  log,                \* what the stage callback received, in order
  outcome,            \* "none" | "returned" | "raised"
  exc,                \* the exception run() raised to its caller
  cause,              \* the exception that reached run()'s handlers
  result,             \* <<>> or <<MergedResult>> returned by run()
  temp_files,         \* files in the temp directory
  attempt,            \* downloader: attempt number of the retry loop
  delays,             \* downloader: the time.sleep arguments so far
  pre_step,           \* preprocessor: index of the next step of process()
  diarize_result,     \* <<>> (None) or <<DiarizeResult>>
  pending,            \* exception in flight while the finally clause runs
  diarizer_loaded,    \* SpeakerDiarizer._pipeline is not None
  transcriber_loaded, \* Transcriber._model is not None
  need_word_timestamps,
  segments,           \* Transcriber: segments collected so far
  merged,             \* run(): <<>> or <<the MergedResult merge returned>>
  hooks,              \* hook invocations of the running inference
  observed,           \* history: some cancellation poll saw the flag set
  polls,              \* history: the polls that saw the flag set
  started,            \* history: stage calls that were made
  failed,             \* history: stage calls that raised, with the error
  cleanup_ran,        \* history: cleanup_temp() was called
  flag_at_exit,       \* history: _cancelled when run() was left
  device_config,      \* Pipeline._device_config
  effective_beam_size,\* run(): the beam size given to Transcriber(...)
  model_size,         \* the name WhisperModel was loaded with, "" before
  beam_size,          \* the beam_size option of model.transcribe, 0 before
  runs,               \* number of the run in progress, from 1
  flag_at_entry,      \* history: _cancelled when run() was entered
  writes,             \* history: <<field, thread>> of every assignment to
                      \* a field of the Pipeline since its construction
  m_pc,               \* merge specification: "input" | "merged"
  m_transcript,       \* merge specification: TranscriptResult
  m_diarize,          \* merge specification: <<>> or <<DiarizeResult>>
  m_result,           \* merge specification: <<>> or <<MergedResult>>
  m_exc,              \* merge specification: "" or the exception merge raised
  h_pc,               \* helper specifications: the call to make / made
  h_args,             \* helper specifications: the arguments of the call
  h_ret               \* helper specifications: <<>> or <<returned value>>

pvars == <<config, has_local_model, downloader_params, cancelled, pc, log,
           outcome, exc, cause, result, temp_files, attempt, delays, pre_step,
           diarize_result, pending, diarizer_loaded, transcriber_loaded,
           need_word_timestamps, segments, merged, hooks, observed, polls, started,
           failed, cleanup_ran, flag_at_exit, device_config,
           effective_beam_size, model_size, beam_size, runs, writes,
           flag_at_entry>>
tvars == <<device_config, effective_beam_size, model_size, beam_size>>
mvars == <<m_pc, m_transcript, m_diarize, m_result, m_exc>>
hvars == <<h_pc, h_args, h_ret>>
vars == <<pvars, mvars, hvars>>

\* ---------------------------------------------------------------- stages
PipelineStage ==
  {"INIT", "DOWNLOAD", "PREPROCESS", "DIARIZE", "TRANSCRIBE", "MERGE",
   "OUTPUT", "DONE", "ERROR"}

\* Declaration order of the enum members.
StageRank(s) ==
  CASE s = "INIT" -> 0 [] s = "DOWNLOAD" -> 1 [] s = "PREPROCESS" -> 2
    [] s = "DIARIZE" -> 3 [] s = "TRANSCRIBE" -> 4 [] s = "MERGE" -> 5
    [] s = "OUTPUT" -> 6 [] s = "DONE" -> 7 [] s = "ERROR" -> 8

\* The exception classes deriving from YouTubeSTTError.
YouTubeSTTErrors ==
  {"YouTubeSTTError", "DownloadError", "PreprocessError", "TranscribeError",
   "DiarizeError", "MergeError", "ModelLoadError", "FFmpegNotFoundError",
   "DependencySetupError", "CancelledError"}

\* One delivery to the stage callback.
Note(stage, progress, msg) ==
  [stage |-> stage, progress |-> progress, msg |-> msg]

\* Pipeline._notify: the callback receives (stage, progress, message).
Notify(lg, stage, progress, msg) == Append(lg, Note(stage, progress, msg))


\* ------------------------------------------------------------ ResultMerger
\* str.join(" ") over a list of texts.
RECURSIVE Join(_)
Join(parts) ==
  IF parts = <<>> THEN <<>>
  ELSE IF Len(parts) = 1 THEN parts[1]
  ELSE parts[1] \o <<" ">> \o Join(Tail(parts))

\* str.strip(): leading and trailing blanks removed.
RECURSIVE LStrip(_)
LStrip(s) == IF s # <<>> /\ s[1] = " " THEN LStrip(Tail(s)) ELSE s
RECURSIVE RStrip(_)
RStrip(s) ==
  IF s # <<>> /\ s[Len(s)] = " " THEN RStrip(SubSeq(s, 1, Len(s) - 1)) ELSE s
Strip(s) == RStrip(LStrip(s))

WordSegment(w, s, e) == [word |-> w, start |-> s, end |-> e]
MergedSegment(sp, tx, s, e, ws) ==
  [speaker |-> sp, text |-> tx, start |-> s, end |-> e, words |-> ws]
\* Mutant of MergedResult: the speakers are recounted from the labels.
MergedResultRecounts(segs, n, t) ==
  [segments |-> segs,
   num_speakers |-> Cardinality({segs[i].speaker : i \in DOMAIN segs}),
   language |-> t.language, duration |-> t.duration]

MergedResult(segs, n, t) ==
  [segments |-> segs, num_speakers |-> n, language |-> t.language,
   duration |-> t.duration]

\* merger.py:69-86
SingleSpeakerMerge(transcript) ==
  MergedResult(
    [i \in 1..Len(transcript.segments) |->
       MergedSegment("SPEAKER_0", transcript.segments[i].text,
                     transcript.segments[i].start, transcript.segments[i].end,
                     transcript.segments[i].words)],
    1, transcript)

\* merger.py:96-106: the words of all segments in order; a segment without
\* words contributes one word made of its text and bounds.
RECURSIVE AllWords(_)
AllWords(segs) ==
  IF segs = <<>> THEN <<>>
  ELSE (IF segs[1].words # <<>>
          THEN segs[1].words
          ELSE <<WordSegment(segs[1].text, segs[1].start, segs[1].end)>>)
       \o AllWords(Tail(segs))

Abs(x) == IF x < 0 THEN -x ELSE x
Min2(a, b) == IF a <= b THEN a ELSE b

\* Mutant of ScanSpans: a span as near as the nearest so far replaces it.
RECURSIVE ScanSpansLaterTieWins(_, _, _, _, _)
ScanSpansLaterTieWins(time2, spans, i, best_speaker, min_distance) ==
  IF i > Len(spans) THEN best_speaker
  ELSE IF 2 * spans[i].start <= time2 /\ time2 <= 2 * spans[i].end
    THEN spans[i].speaker
  ELSE LET dist == Min2(Abs(time2 - 2 * spans[i].start),
                        Abs(time2 - 2 * spans[i].end))
       IN IF min_distance = -1 \/ dist <= min_distance
            THEN ScanSpansLaterTieWins(time2, spans, i + 1, spans[i].speaker,
                                       dist)
            ELSE ScanSpansLaterTieWins(time2, spans, i + 1, best_speaker,
                                       min_distance)

\* merger.py:174-184, the loop from span i on.  time2 is twice the time
\* point (the midpoint (start + end) / 2 of integer bounds, doubled, is the
\* integer start + end); distances are doubled alike.  min_distance = -1
\* stands for float("inf").
RECURSIVE ScanSpans(_, _, _, _, _)
ScanSpans(time2, spans, i, best_speaker, min_distance) ==
  IF i > Len(spans) THEN best_speaker
  ELSE IF 2 * spans[i].start <= time2 /\ time2 <= 2 * spans[i].end
    THEN spans[i].speaker
  ELSE LET dist == Min2(Abs(time2 - 2 * spans[i].start),
                        Abs(time2 - 2 * spans[i].end))
       IN IF min_distance = -1 \/ dist < min_distance
            THEN ScanSpans(time2, spans, i + 1, spans[i].speaker, dist)
            ELSE ScanSpans(time2, spans, i + 1, best_speaker, min_distance)

\* Mutant of FindSpeakerAt: the spans are scanned from the last to the first.
FindSpeakerAtBackwards(time2, diar_segments) ==
  ScanSpans(time2,
            [i \in 1..Len(diar_segments) |->
               diar_segments[Len(diar_segments) + 1 - i]],
            1, "SPEAKER_0", -1)

\* merger.py:168-184
FindSpeakerAt(time2, diar_segments) ==
  ScanSpans(time2, diar_segments, 1, "SPEAKER_0", -1)

\* current_speaker or "SPEAKER_0" (None is modelled as "")
OrSpeaker0(sp) == IF sp = "" THEN "SPEAKER_0" ELSE sp

\* Mutant of CloseRun: the run ends where its first word ends.
CloseRunEndsAtFirstWord(current_speaker, current_words) ==
  MergedSegment(OrSpeaker0(current_speaker),
                Strip(Join([k \in 1..Len(current_words) |->
                              current_words[k].word])),
                current_words[1].start,
                current_words[1].end,
                current_words)

\* merger.py:132-138 and 148-154: the run collected so far as a segment.
CloseRun(current_speaker, current_words) ==
  MergedSegment(OrSpeaker0(current_speaker),
                Strip(Join([k \in 1..Len(current_words) |->
                              current_words[k].word])),
                current_words[1].start,
                current_words[Len(current_words)].end,
                current_words)

\* merger.py:129-154, the loop from word i on and the final flush.
RECURSIVE GroupWords(_, _, _, _, _, _)
GroupWords(words, speakers, i, merged_segments, current_speaker, current_words) ==
  IF i > Len(words)
    THEN (IF current_words # <<>>
            THEN Append(merged_segments, CloseRun(current_speaker, current_words))
            ELSE merged_segments)
  ELSE IF speakers[i] # current_speaker /\ current_words # <<>>
    THEN GroupWords(words, speakers, i + 1,
                    Append(merged_segments, CloseRun(current_speaker, current_words)),
                    speakers[i], <<words[i]>>)
  ELSE GroupWords(words, speakers, i + 1, merged_segments, speakers[i],
                  Append(current_words, words[i]))

\* Mutant of WordLevelMerge: the grouping loop starts at the second word.
WordLevelMergeSkipsFirst(transcript, diarize) ==
  LET all_words == AllWords(transcript.segments)
      word_speakers ==
        [i \in 1..Len(all_words) |->
           FindSpeakerAt(all_words[i].start + all_words[i].end,
                         diarize.segments)]
  IN IF all_words = <<>>
       THEN MergedResult(<<>>, diarize.num_speakers, transcript)
       ELSE MergedResult(GroupWords(all_words, word_speakers, 2, <<>>, "", <<>>),
                         diarize.num_speakers, transcript)

\* merger.py:88-166
WordLevelMerge(transcript, diarize) ==
  LET all_words == AllWords(transcript.segments)
      word_speakers ==
        [i \in 1..Len(all_words) |->
           FindSpeakerAt(all_words[i].start + all_words[i].end,
                         diarize.segments)]
  IN IF all_words = <<>>
       THEN MergedResult(<<>>, diarize.num_speakers, transcript)
       ELSE MergedResult(GroupWords(all_words, word_speakers, 1, <<>>, "", <<>>),
                         diarize.num_speakers, transcript)

\* merger.py:41-66; diarize is <<>> for None, else <<DiarizeResult>>.
Merge(transcript, diarize) ==
  IF diarize = <<>> \/ diarize[1].segments = <<>>
    THEN SingleSpeakerMerge(transcript)
    ELSE WordLevelMerge(transcript, diarize[1])

\* A time stamp that is None (time stamps proper are not negative).
None == -1

\* The exception raised inside the try block of merge (merger.py:55-63), ""
\* when there is none: (word.start + word.end) / 2 at merger.py:119 raises
\* TypeError for a word whose start or end is None.  The single-speaker
\* path does no arithmetic on its input.
MergeRaises(transcript, diarize) ==
  IF diarize = <<>> \/ diarize[1].segments = <<>> THEN ""
  ELSE LET all_words == AllWords(transcript.segments)
       IN IF \E i \in DOMAIN all_words:
                all_words[i].start = None \/ all_words[i].end = None
            THEN "TypeError"
            ELSE ""

\* Mutant of MergeErrorOf: the exception leaves merge as it is.
MergeErrorUnwrapped(e) == e

\* merger.py:65-66: except Exception as e: raise MergeError(...)
MergeErrorOf(e) == "MergeError"


\* ------------------------------------------------------------ DeviceManager
\* Accelerator memory in tenths of a GB: 6, 8 and 12 GB are 60, 80 and 120.
DeviceConfig(device, compute_type, whisper_model, recommended_beam_size, gpu_memory_gb) ==
  [device |-> device, compute_type |-> compute_type,
   whisper_model |-> whisper_model,
   recommended_beam_size |-> recommended_beam_size,
   gpu_memory_gb |-> gpu_memory_gb]

\* Mutant of SelectByVram: the two upper bands are exchanged.
SelectByVramBandsExchanged(gpu_mem_gb) ==
  IF gpu_mem_gb >= 120 THEN <<"distil-large-v3", "float16", 3>>
  ELSE IF gpu_mem_gb >= 80 THEN <<"large-v3", "float16", 5>>
  ELSE IF gpu_mem_gb >= 60 THEN <<"small", "float16", 3>>
  ELSE <<"small", "int8", 1>>

\* device.py:92-110
SelectByVram(gpu_mem_gb) ==
  IF gpu_mem_gb >= 120 THEN <<"large-v3", "float16", 5>>
  ELSE IF gpu_mem_gb >= 80 THEN <<"distil-large-v3", "float16", 3>>
  ELSE IF gpu_mem_gb >= 60 THEN <<"small", "float16", 3>>
  ELSE <<"small", "int8", 1>>

\* whisper_model_override if whisper_model_override else "small"
OrSmall(whisper_model_override) ==
  IF whisper_model_override # "" THEN whisper_model_override ELSE "small"

\* Mutant of Detect: the GPU branch keeps the model of the memory table.
DetectKeepsTableModel(force_cpu, whisper_model_override, torch, gpu_mem) ==
  IF force_cpu
    THEN DeviceConfig("cpu", "int8", OrSmall(whisper_model_override), 1, 0)
  ELSE IF torch = "cuda"
    THEN LET sel == SelectByVram(gpu_mem)
         IN DeviceConfig("cuda", sel[2], sel[1], sel[3], gpu_mem)
  ELSE DeviceConfig("cpu", "int8", OrSmall(whisper_model_override), 1, 0)

\* device.py:29-90.  torch is what "import torch" and the CUDA queries do:
\* "missing" (ImportError), "error" (a query raises), "no_cuda"
\* (is_available() is False) or "cuda"; gpu_mem is the total memory of
\* device 0.
Detect(force_cpu, whisper_model_override, torch, gpu_mem) ==
  IF force_cpu
    THEN DeviceConfig("cpu", "int8", OrSmall(whisper_model_override), 1, 0)
  ELSE IF torch = "cuda"
    THEN LET sel == SelectByVram(gpu_mem)
         IN DeviceConfig("cuda", sel[2],
                         IF whisper_model_override # ""
                           THEN whisper_model_override ELSE sel[1],
                         sel[3], gpu_mem)
  ELSE DeviceConfig("cpu", "int8", OrSmall(whisper_model_override), 1, 0)

VramValues == {0, 40, 59, 60, 79, 80, 119, 120, 240}
ModelOverrides == {"", "tiny", "large-v3"}
TorchStates == {"missing", "error", "no_cuda", "cuda"}


\* ---------------------------------------------------------------- Pipeline
env == <<config, has_local_model, downloader_params, runs>>

\* Keywords pipeline.py:99-102 passes to YouTubeDownloader(...).
DownloaderCallKeywords == {"progress_callback", "cancel_check"}
\* Keywords YouTubeDownloader.__init__ declares (downloader.py:35).
DownloaderInitParams == {"progress_callback"}
\* Methods class SpeakerDiarizer defines.
SpeakerDiarizerMethods ==
  {"__init__", "load_model", "diarize", "_create_hook", "_report_progress"}

\* The worker goes on inside the try block.
Goto(p, lg) ==
  /\ pc' = p
  /\ log' = lg
  /\ UNCHANGED <<outcome, exc, cause, result, flag_at_exit>>

\* Mutant of Unwind: the handler lacks "except YouTubeSTTError: raise", so
\* every exception is notified and wrapped.
UnwindWrapsAll(e, lg) ==
  /\ pc' = "exit"
  /\ cause' = e
  /\ outcome' = "raised"
  /\ result' = <<>>
  /\ flag_at_exit' = cancelled
  /\ log' = Notify(lg, "ERROR", 0, "error")
  /\ exc' = "YouTubeSTTError"

\* pipeline.py:210-214: exception e leaves the try block of run().  A
\* YouTubeSTTError (any subclass) is re-raised as it is; anything else is
\* notified as stage ERROR and replaced by a YouTubeSTTError.
Unwind(e, lg) ==
  /\ pc' = "exit"
  /\ cause' = e
  /\ outcome' = "raised"
  /\ result' = <<>>
  /\ flag_at_exit' = cancelled
  /\ IF e \in YouTubeSTTErrors
       THEN log' = lg /\ exc' = e
       ELSE log' = Notify(lg, "ERROR", 0, "error") /\ exc' = "YouTubeSTTError"

\* A cancellation poll that saw the flag set (history only).
Observe(point) == observed' = TRUE /\ polls' = polls \cup {point}

\* Mutant of CallerOfCancel: cancel() runs on the worker thread.
CallerOfCancelWorker == "worker"

\* The thread on which cancel() runs: the GUI thread, from the cancel
\* button (app.py:319-323), while run() is on the worker thread
\* (app.py:284-287).
CallerOfCancel == "control"

\* pipeline.py:76-79, on the control path, at any moment.
Cancel ==
  /\ ~cancelled
  /\ cancelled' = TRUE
  /\ writes' = writes \cup {<<"_cancelled", CallerOfCancel>>}
  /\ UNCHANGED <<pc, log, outcome, exc, cause, result, flag_at_exit>>
  /\ UNCHANGED <<env, mvars, hvars, tvars, flag_at_entry, temp_files, attempt,
       delays, pre_step,
       diarize_result, pending, diarizer_loaded, transcriber_loaded,
       need_word_timestamps, segments, merged, hooks, observed, polls,
       started, failed, cleanup_ran>>

\* Mutant of NotifyInit: run() lowers the flag when it starts.
NotifyInitClearsFlag ==
  /\ pc = "idle"
  /\ flag_at_entry' = cancelled
  /\ cancelled' = FALSE
  /\ Goto("check_init", Notify(log, "INIT", 0, "start"))
  /\ UNCHANGED <<env, mvars, hvars, writes, tvars, temp_files, attempt, delays,
       pre_step, diarize_result, pending, diarizer_loaded,
       transcriber_loaded, need_word_timestamps, segments, merged, hooks,
       observed, polls, started, failed, cleanup_ran>>

\* pipeline.py:90-94
NotifyInit ==
  /\ pc = "idle"
  /\ flag_at_entry' = cancelled
  /\ Goto("check_init", Notify(log, "INIT", 0, "start"))
  /\ UNCHANGED <<env, mvars, hvars, writes, tvars, cancelled, temp_files,
       attempt, delays,
       pre_step, diarize_result, pending, diarizer_loaded,
       transcriber_loaded, need_word_timestamps, segments, merged, hooks,
       observed, polls, started, failed, cleanup_ran>>

\* Where run() goes on after a _check_cancelled() that does not raise.
AfterCheck(p) ==
  CASE p = "check_init" -> "start_download"
    [] p = "check_download" -> "start_preprocess"
    [] p = "check_preprocess" -> "diarize_decide"
    [] p = "check_diarize" -> "transcribe_setup"
    [] p = "check_transcribe" -> "merge"

CheckPoints ==
  {"check_init", "check_download", "check_preprocess", "check_diarize",
   "check_transcribe"}

\* pipeline.py:216-218, called at lines 95, 104, 113, 152, 190
CheckCancelled ==
  /\ pc \in CheckPoints
  /\ IF cancelled
       THEN Observe(pc) /\ Unwind("CancelledError", log)
       ELSE UNCHANGED <<observed, polls>> /\ Goto(AfterCheck(pc), log)
  /\ UNCHANGED <<env, mvars, hvars, writes, flag_at_entry, tvars, cancelled,
       temp_files, attempt, delays,
       pre_step, diarize_result, pending, diarizer_loaded,
       transcriber_loaded, need_word_timestamps, segments, merged, hooks,
       started, failed, cleanup_ran>>

\* pipeline.py:98-102: the DOWNLOAD notification and the constructor call.
StartDownload ==
  /\ pc = "start_download"
  /\ LET lg == Notify(log, "DOWNLOAD", 0, "start")
     IN IF DownloaderCallKeywords \subseteq downloader_params
          THEN Goto("download_begin", lg)
          ELSE Unwind("TypeError", lg)
  /\ UNCHANGED <<env, mvars, hvars, writes, flag_at_entry, tvars, cancelled,
       temp_files, attempt, delays,
       pre_step, diarize_result, pending, diarizer_loaded,
       transcriber_loaded, need_word_timestamps, segments, merged, hooks,
       observed, polls, started, failed, cleanup_ran>>

\* pipeline.py:103, downloader.py:55-78
DownloadBegin ==
  /\ pc = "download_begin"
  /\ started' = started \cup {"download"}
  /\ IF config.url_valid
       THEN /\ attempt' = 1
            /\ delays' = <<>>
            /\ UNCHANGED failed
            /\ Goto("download_attempt", log)
       ELSE /\ failed' = failed \cup {"DownloadError"}
            /\ UNCHANGED <<attempt, delays>>
            /\ Unwind("DownloadError", log)
  /\ UNCHANGED <<env, mvars, hvars, writes, flag_at_entry, tvars, cancelled,
       temp_files, pre_step,
       diarize_result, pending, diarizer_loaded, transcriber_loaded,
       need_word_timestamps, segments, merged, hooks, observed, polls,
       cleanup_ran>>

\* downloader.py:79-94: an attempt that produces the WAV file.
DownloadSucceeds ==
  /\ pc = "download_attempt"
  /\ temp_files' = temp_files \cup {"audio_raw.wav"}
  /\ Goto("check_download",
          Notify(Notify(log, "DOWNLOAD", 0, "attempt"), "DOWNLOAD", 100, "done"))
  /\ UNCHANGED <<env, mvars, hvars, writes, flag_at_entry, tvars, cancelled,
       attempt, delays, pre_step,
       diarize_result, pending, diarizer_loaded, transcriber_loaded,
       need_word_timestamps, segments, merged, hooks, observed, polls,
       started, failed, cleanup_ran>>

\* downloader.py:90-99: extraction returned but no WAV file exists.
DownloadNoWav ==
  /\ pc = "download_attempt"
  /\ failed' = failed \cup {"DownloadError"}
  /\ Unwind("DownloadError", Notify(log, "DOWNLOAD", 0, "attempt"))
  /\ UNCHANGED <<env, mvars, hvars, writes, flag_at_entry, tvars, cancelled,
       temp_files, attempt, delays,
       pre_step, diarize_result, pending, diarizer_loaded,
       transcriber_loaded, need_word_timestamps, segments, merged, hooks,
       observed, polls, started, cleanup_ran>>

\* Mutant of DownloadFails: the delay is RETRY_DELAY before every retry.
DownloadFailsConstantDelay ==
  /\ pc = "download_attempt"
  /\ LET lg == Notify(log, "DOWNLOAD", 0, "attempt")
     IN IF attempt < MAX_RETRIES
          THEN /\ delays' = Append(delays, RETRY_DELAY)
               /\ attempt' = attempt + 1
               /\ UNCHANGED failed
               /\ Goto("download_attempt", lg)
          ELSE /\ failed' = failed \cup {"DownloadError"}
               /\ UNCHANGED <<attempt, delays>>
               /\ Unwind("DownloadError", lg)
  /\ UNCHANGED <<env, mvars, hvars, writes, flag_at_entry, tvars, cancelled,
       temp_files, pre_step,
       diarize_result, pending, diarizer_loaded, transcriber_loaded,
       need_word_timestamps, segments, merged, hooks, observed, polls,
       started, cleanup_ran>>

\* downloader.py:100-108: the attempt raised; retry after a delay, or give
\* up after the last attempt.
DownloadFails ==
  /\ pc = "download_attempt"
  /\ LET lg == Notify(log, "DOWNLOAD", 0, "attempt")
     IN IF attempt < MAX_RETRIES
          THEN /\ delays' = Append(delays, RETRY_DELAY * attempt)
               /\ attempt' = attempt + 1
               /\ UNCHANGED failed
               /\ Goto("download_attempt", lg)
          ELSE /\ failed' = failed \cup {"DownloadError"}
               /\ UNCHANGED <<attempt, delays>>
               /\ Unwind("DownloadError", lg)
  /\ UNCHANGED <<env, mvars, hvars, writes, flag_at_entry, tvars, cancelled,
       temp_files, pre_step,
       diarize_result, pending, diarizer_loaded, transcriber_loaded,
       need_word_timestamps, segments, merged, hooks, observed, polls,
       started, cleanup_ran>>

\* pipeline.py:107-112, preprocessor.py:45-48
StartPreprocess ==
  /\ pc = "start_preprocess"
  /\ started' = started \cup {"preprocess"}
  /\ LET lg == Notify(log, "PREPROCESS", 0, "start")
     IN IF "audio_raw.wav" \in temp_files
          THEN /\ pre_step' = 0
               /\ UNCHANGED failed
               /\ Goto("preprocess_step", lg)
          ELSE /\ failed' = failed \cup {"PreprocessError"}
               /\ UNCHANGED pre_step
               /\ Unwind("PreprocessError", lg)
  /\ UNCHANGED <<env, mvars, hvars, writes, flag_at_entry, tvars, cancelled,
       temp_files, attempt, delays,
       diarize_result, pending, diarizer_loaded, transcriber_loaded,
       need_word_timestamps, segments, merged, hooks, observed, polls,
       cleanup_ran>>

\* Progress reported before step k of process() (preprocessor.py:51-72).
PreRatio(k) == 20 * k
LastPreStep == 4

\* Mutant of PreprocessStep: the progress callback is bound to the
\* DOWNLOAD stage.
PreprocessStepAsDownload ==
  /\ pc = "preprocess_step"
  /\ LET lg == Notify(log, "DOWNLOAD", PreRatio(pre_step), "step")
     IN IF cancelled
          THEN /\ Observe("preprocess")
               /\ UNCHANGED pre_step
               /\ Unwind("CancelledError", lg)
          ELSE /\ UNCHANGED <<observed, polls>>
               /\ pre_step' = pre_step + 1
               /\ Goto(IF pre_step = LastPreStep THEN "preprocess_write"
                       ELSE "preprocess_step", lg)
  /\ UNCHANGED <<env, mvars, hvars, writes, flag_at_entry, tvars, cancelled,
       temp_files, attempt, delays,
       diarize_result, pending, diarizer_loaded, transcriber_loaded,
       need_word_timestamps, segments, merged, hooks, started, failed,
       cleanup_ran>>

\* preprocessor.py:51-74: one of the five steps load, mono, resample,
\* normalise, clip: its progress report, the step, the cancellation poll.
PreprocessStep ==
  /\ pc = "preprocess_step"
  /\ LET lg == Notify(log, "PREPROCESS", PreRatio(pre_step), "step")
     IN IF cancelled
          THEN /\ Observe("preprocess")
               /\ UNCHANGED pre_step
               /\ Unwind("CancelledError", lg)
          ELSE /\ UNCHANGED <<observed, polls>>
               /\ pre_step' = pre_step + 1
               /\ Goto(IF pre_step = LastPreStep THEN "preprocess_write"
                       ELSE "preprocess_step", lg)
  /\ UNCHANGED <<env, mvars, hvars, writes, flag_at_entry, tvars, cancelled,
       temp_files, attempt, delays,
       diarize_result, pending, diarizer_loaded, transcriber_loaded,
       need_word_timestamps, segments, merged, hooks, started, failed,
       cleanup_ran>>

\* preprocessor.py:52, 90-91: the input cannot be read.
PreprocessLoadFails ==
  /\ pc = "preprocess_step"
  /\ pre_step = 0
  /\ failed' = failed \cup {"PreprocessError"}
  /\ Unwind("PreprocessError", Notify(log, "PREPROCESS", 0, "step"))
  /\ UNCHANGED <<env, mvars, hvars, writes, flag_at_entry, tvars, cancelled,
       temp_files, attempt, delays,
       pre_step, diarize_result, pending, diarizer_loaded,
       transcriber_loaded, need_word_timestamps, segments, merged, hooks,
       observed, polls, started, cleanup_ran>>

\* preprocessor.py:77-84
PreprocessWrite ==
  /\ pc = "preprocess_write"
  /\ temp_files' = temp_files \cup {"preprocessed.wav"}
  /\ Goto("check_preprocess",
          Notify(Notify(log, "PREPROCESS", 90, "save"), "PREPROCESS", 100, "done"))
  /\ UNCHANGED <<env, mvars, hvars, writes, flag_at_entry, tvars, cancelled,
       attempt, delays, pre_step,
       diarize_result, pending, diarizer_loaded, transcriber_loaded,
       need_word_timestamps, segments, merged, hooks, observed, polls,
       started, failed, cleanup_ran>>

\* preprocessor.py:78, 90-91: the write fails; the file it opened may stay.
PreprocessWriteFails ==
  /\ pc = "preprocess_write"
  /\ \E partial \in BOOLEAN:
       temp_files' = IF partial THEN temp_files \cup {"preprocessed.wav"}
                     ELSE temp_files
  /\ failed' = failed \cup {"PreprocessError"}
  /\ Unwind("PreprocessError", Notify(log, "PREPROCESS", 90, "save"))
  /\ UNCHANGED <<env, mvars, hvars, writes, flag_at_entry, tvars, cancelled,
       attempt, delays, pre_step,
       diarize_result, pending, diarizer_loaded, transcriber_loaded,
       need_word_timestamps, segments, merged, hooks, observed, polls,
       started, cleanup_ran>>

\* Mutant of can_diarize: the local model is not considered.
can_diarize_token_only == config.enable_diarization /\ config.hf_token # ""

\* pipeline.py:117-121
can_diarize ==
  config.enable_diarization /\ (config.hf_token # "" \/ has_local_model)

\* pipeline.py:122-131: the diarizer is built and diarize() is entered.
StartDiarize ==
  /\ pc = "diarize_decide"
  /\ can_diarize
  /\ started' = started \cup {"diarize"}
  /\ hooks' = 0
  /\ pending' = ""
  /\ Goto("diarize_load", Notify(log, "DIARIZE", 0, "start"))
  /\ UNCHANGED <<env, mvars, hvars, writes, flag_at_entry, tvars, cancelled,
       temp_files, attempt, delays,
       pre_step, diarize_result, diarizer_loaded, transcriber_loaded,
       need_word_timestamps, segments, merged, observed, polls, failed,
       cleanup_ran>>

\* pipeline.py:143-148
SkipDiarizeNoModel ==
  /\ pc = "diarize_decide"
  /\ ~can_diarize
  /\ config.enable_diarization
  /\ Goto("check_diarize", Notify(log, "DIARIZE", 100, "skip_no_model"))
  /\ UNCHANGED <<env, mvars, hvars, writes, flag_at_entry, tvars, cancelled,
       temp_files, attempt, delays,
       pre_step, diarize_result, pending, diarizer_loaded,
       transcriber_loaded, need_word_timestamps, segments, merged, hooks,
       observed, polls, started, failed, cleanup_ran>>

\* pipeline.py:149-150
SkipDiarizeDisabled ==
  /\ pc = "diarize_decide"
  /\ ~can_diarize
  /\ ~config.enable_diarization
  /\ Goto("check_diarize", Notify(log, "DIARIZE", 100, "skip_disabled"))
  /\ UNCHANGED <<env, mvars, hvars, writes, flag_at_entry, tvars, cancelled,
       temp_files, attempt, delays,
       pre_step, diarize_result, pending, diarizer_loaded,
       transcriber_loaded, need_word_timestamps, segments, merged, hooks,
       observed, polls, started, failed, cleanup_ran>>

\* diarizer.py:107-108, 46-86, 115: load_model succeeds, inference begins.
DiarizerLoadModel ==
  /\ pc = "diarize_load"
  /\ diarizer_loaded' = TRUE
  /\ Goto("diarize_infer",
          Notify(Notify(Notify(log, "DIARIZE", 0, "load"),
                        "DIARIZE", 100, "loaded"), "DIARIZE", 0, "running"))
  /\ UNCHANGED <<env, mvars, hvars, writes, flag_at_entry, tvars, cancelled,
       temp_files, attempt, delays,
       pre_step, diarize_result, pending, transcriber_loaded,
       need_word_timestamps, segments, merged, hooks, observed, polls,
       started, failed, cleanup_ran>>

\* Mutant of DiarizerLoadFails: the load failure is caught like a
\* DiarizeError and notified as the fallback.
DiarizerLoadFailsAsFallback ==
  /\ pc = "diarize_load"
  /\ \E assigned \in BOOLEAN: diarizer_loaded' = assigned
  /\ failed' = failed \cup {"ModelLoadError"}
  /\ Goto("diarize_finally",
          Notify(Notify(log, "DIARIZE", 0, "load"), "DIARIZE", 100, "fallback"))
  /\ UNCHANGED <<env, mvars, hvars, writes, flag_at_entry, tvars, cancelled,
       temp_files, attempt, delays, pre_step, diarize_result, pending,
       transcriber_loaded, need_word_timestamps, segments, merged, hooks,
       observed, polls, started, cleanup_ran>>

\* diarizer.py:87-88: load_model raises ModelLoadError; the pipeline object
\* may or may not have been assigned before the failure (lines 67-80).
DiarizerLoadFails ==
  /\ pc = "diarize_load"
  /\ \E assigned \in BOOLEAN: diarizer_loaded' = assigned
  /\ pending' = "ModelLoadError"
  /\ failed' = failed \cup {"ModelLoadError"}
  /\ Goto("diarize_finally", Notify(log, "DIARIZE", 0, "load"))
  /\ UNCHANGED <<env, mvars, hvars, writes, flag_at_entry, tvars, cancelled,
       temp_files, attempt, delays,
       pre_step, diarize_result, transcriber_loaded, need_word_timestamps,
       segments, merged, hooks, observed, polls, started, cleanup_ran>>

\* diarizer.py:204-224, 172-173: the engine calls the hook, which polls.
DiarizeHook ==
  /\ pc = "diarize_infer"
  /\ hooks < MaxHooks
  /\ IF cancelled
       THEN /\ Observe("diarize_hook")
            /\ pending' = "CancelledError"
            /\ UNCHANGED hooks
            /\ Goto("diarize_finally", log)
       ELSE /\ UNCHANGED <<observed, polls, pending>>
            /\ hooks' = hooks + 1
            /\ Goto("diarize_infer", Notify(log, "DIARIZE", 50, "hook"))
  /\ UNCHANGED <<env, mvars, hvars, writes, flag_at_entry, tvars, cancelled,
       temp_files, attempt, delays,
       pre_step, diarize_result, diarizer_loaded, transcriber_loaded,
       need_word_timestamps, segments, merged, started, failed,
       cleanup_ran>>

\* What diarize() may return: no span at all, or spans of two speakers.
DiarizeOutputs ==
  { [segments |-> <<>>, num_speakers |-> 0],
    [segments |-> << [speaker |-> "SPEAKER_0", start |-> 0, end |-> 1],
                     [speaker |-> "SPEAKER_1", start |-> 1, end |-> 2] >>,
     num_speakers |-> 2] }

\* diarizer.py:135-170
DiarizeReturns ==
  /\ pc = "diarize_infer"
  /\ \E d \in DiarizeOutputs: diarize_result' = <<d>>
  /\ Goto("diarize_finally", Notify(log, "DIARIZE", 100, "done"))
  /\ UNCHANGED <<env, mvars, hvars, writes, flag_at_entry, tvars, cancelled,
       temp_files, attempt, delays,
       pre_step, pending, diarizer_loaded, transcriber_loaded,
       need_word_timestamps, segments, merged, hooks, observed, polls,
       started, failed, cleanup_ran>>

\* diarizer.py:174-175, pipeline.py:135-140: DiarizeError is caught and
\* notified as the single-speaker fallback.
DiarizeFails ==
  /\ pc = "diarize_infer"
  /\ failed' = failed \cup {"DiarizeError"}
  /\ Goto("diarize_finally", Notify(log, "DIARIZE", 100, "fallback"))
  /\ UNCHANGED <<env, mvars, hvars, writes, flag_at_entry, tvars, cancelled,
       temp_files, attempt, delays,
       pre_step, diarize_result, pending, diarizer_loaded,
       transcriber_loaded, need_word_timestamps, segments, merged, hooks,
       observed, polls, started, cleanup_ran>>

\* pipeline.py:141-142: finally: diarizer.unload_model().  The attribute
\* lookup raises AttributeError when the class defines no such method, and
\* that exception replaces the one in flight.
DiarizeFinally ==
  /\ pc = "diarize_finally"
  /\ pending' = ""
  /\ IF "unload_model" \in SpeakerDiarizerMethods
       THEN /\ diarizer_loaded' = FALSE
            /\ IF pending = "" THEN Goto("check_diarize", log)
               ELSE Unwind(pending, log)
       ELSE /\ UNCHANGED diarizer_loaded
            /\ Unwind("AttributeError", log)
  /\ UNCHANGED <<env, mvars, hvars, writes, flag_at_entry, tvars, cancelled,
       temp_files, attempt, delays,
       pre_step, diarize_result, transcriber_loaded, need_word_timestamps,
       segments, merged, hooks, observed, polls, started, failed,
       cleanup_ran>>

\* pipeline.py:154-177: the model override is written into the device
\* configuration, the beam size is the override or the recommendation.
TranscribeSetup ==
  /\ pc = "transcribe_setup"
  /\ device_config' =
       IF config.whisper_model # ""
         THEN [device_config EXCEPT !.whisper_model = config.whisper_model]
         ELSE device_config
  /\ effective_beam_size' =
       IF config.beam_size > 0 THEN config.beam_size
       ELSE device_config.recommended_beam_size
  /\ writes' =
       IF config.whisper_model # ""
         THEN writes \cup {<<"_device_config", "worker">>}
         ELSE writes
  /\ UNCHANGED <<model_size, beam_size>>
  /\ need_word_timestamps' =
       (diarize_result # <<>> /\ diarize_result[1].segments # <<>>)
  /\ started' = started \cup {"transcribe"}
  /\ segments' = <<>>
  /\ Goto("transcribe_load", Notify(log, "TRANSCRIBE", 0, "start"))
  /\ UNCHANGED <<env, mvars, hvars, flag_at_entry, cancelled, temp_files,
       attempt, delays,
       pre_step, diarize_result, pending, diarizer_loaded,
       transcriber_loaded, merged, hooks, observed, polls, failed,
       cleanup_ran>>

\* The message tag of the mode chosen at pipeline.py:178-189.
Mode == IF config.use_vad THEN "vad" ELSE "full"

\* transcriber.py:118 / 203: beam_size = 1 if self._low_power else
\* self._beam_size
EngineBeamSize(low_power, given) == IF low_power THEN 1 ELSE given

\* transcriber.py:60-91 and 111-124 / 196-214: the model is loaded under the
\* name in the device configuration and the engine options are set.
TranscriberLoadModel ==
  /\ pc = "transcribe_load"
  /\ transcriber_loaded' = TRUE
  /\ model_size' = device_config.whisper_model
  /\ beam_size' = EngineBeamSize(config.low_power, effective_beam_size)
  /\ UNCHANGED <<device_config, effective_beam_size>>
  /\ Goto("transcribe_loop",
          Notify(Notify(Notify(log, "TRANSCRIBE", 0, "load"),
                        "TRANSCRIBE", 100, "loaded"), "TRANSCRIBE", 0, Mode))
  /\ UNCHANGED <<env, mvars, hvars, writes, flag_at_entry, cancelled,
       temp_files, attempt, delays,
       pre_step, diarize_result, pending, diarizer_loaded,
       need_word_timestamps, segments, merged, hooks, observed, polls,
       started, failed, cleanup_ran>>

\* transcriber.py:93-94: ModelLoadError leaves transcribe_* and run().
TranscriberLoadFails ==
  /\ pc = "transcribe_load"
  /\ failed' = failed \cup {"ModelLoadError"}
  /\ Unwind("ModelLoadError", Notify(log, "TRANSCRIBE", 0, "load"))
  /\ UNCHANGED <<env, mvars, hvars, writes, flag_at_entry, tvars, cancelled,
       temp_files, attempt, delays,
       pre_step, diarize_result, pending, diarizer_loaded,
       transcriber_loaded, need_word_timestamps, segments, merged, hooks,
       observed, polls, started, cleanup_ran>>

\* The k-th segment the engine yields (k counted from 0); it carries words
\* only when word timestamps were requested.
EngineSegment(k, word_timestamps) ==
  [text |-> <<"a">>, start |-> k, end |-> k + 1,
   words |-> IF word_timestamps THEN <<WordSegment(<<"a">>, k, k + 1)>>
             ELSE <<>>]

\* transcriber.py:142-169 / 228-255: one iteration of the segment loop.
TranscribeSegment ==
  /\ pc = "transcribe_loop"
  /\ Len(segments) < MaxSegments
  /\ IF cancelled
       THEN /\ Observe("transcribe_loop")
            /\ UNCHANGED segments
            /\ Unwind("CancelledError", log)
       ELSE /\ UNCHANGED <<observed, polls>>
            /\ segments' = Append(segments,
                             EngineSegment(Len(segments), need_word_timestamps))
            /\ Goto("transcribe_loop",
                    Notify(log, "TRANSCRIBE",
                           ((Len(segments) + 1) * 100) \div MaxSegments,
                           "progress"))
  /\ UNCHANGED <<env, mvars, hvars, writes, flag_at_entry, tvars, cancelled,
       temp_files, attempt, delays,
       pre_step, diarize_result, pending, diarizer_loaded,
       transcriber_loaded, need_word_timestamps, merged, hooks, started,
       failed, cleanup_ran>>

\* transcriber.py:183-184 / 269-270: the engine raises.
TranscribeFails ==
  /\ pc = "transcribe_loop"
  /\ failed' = failed \cup {"TranscribeError"}
  /\ Unwind("TranscribeError", log)
  /\ UNCHANGED <<env, mvars, hvars, writes, flag_at_entry, tvars, cancelled,
       temp_files, attempt, delays,
       pre_step, diarize_result, pending, diarizer_loaded,
       transcriber_loaded, need_word_timestamps, segments, merged, hooks,
       observed, polls, started, cleanup_ran>>

\* transcriber.py:171-179 / 257-265: the generator is exhausted.
TranscribeReturns ==
  /\ pc = "transcribe_loop"
  /\ Goto("check_transcribe", Notify(log, "TRANSCRIBE", 100, "done"))
  /\ UNCHANGED <<env, mvars, hvars, writes, flag_at_entry, tvars, cancelled,
       temp_files, attempt, delays,
       pre_step, diarize_result, pending, diarizer_loaded,
       transcriber_loaded, need_word_timestamps, segments, merged, hooks,
       observed, polls, started, failed, cleanup_ran>>

\* The TranscriptResult built from the collected segments.
Transcript ==
  [segments |-> segments, language |-> "en", duration |-> MaxSegments]

\* pipeline.py:193-195
MergeStage ==
  /\ pc = "merge"
  /\ started' = started \cup {"merge"}
  /\ merged' = <<Merge(Transcript, diarize_result)>>
  /\ Goto("notify_done",
          Notify(Notify(log, "MERGE", 0, "start"), "MERGE", 100, "done"))
  /\ UNCHANGED <<env, mvars, hvars, writes, flag_at_entry, tvars, cancelled,
       temp_files, attempt, delays,
       pre_step, diarize_result, pending, diarizer_loaded,
       transcriber_loaded, need_word_timestamps, segments, hooks, observed,
       polls, failed, cleanup_ran>>

\* pipeline.py:198-203
NotifyDone ==
  /\ pc = "notify_done"
  /\ Goto("cleanup", Notify(log, "DONE", 100, "done"))
  /\ UNCHANGED <<env, mvars, hvars, writes, flag_at_entry, tvars, cancelled,
       temp_files, attempt, delays,
       pre_step, diarize_result, pending, diarizer_loaded,
       transcriber_loaded, need_word_timestamps, segments, merged, hooks,
       observed, polls, started, failed, cleanup_ran>>

\* pipeline.py:206-208, paths.py:211-217: every file is unlinked.
CleanupReturns ==
  /\ pc = "cleanup"
  /\ cleanup_ran' = TRUE
  /\ temp_files' = {}
  /\ pc' = "exit"
  /\ outcome' = "returned"
  /\ result' = merged
  /\ flag_at_exit' = cancelled
  /\ UNCHANGED <<log, exc, cause>>
  /\ UNCHANGED <<env, mvars, hvars, writes, flag_at_entry, tvars, cancelled,
       attempt, delays, pre_step,
       diarize_result, pending, diarizer_loaded, transcriber_loaded,
       need_word_timestamps, segments, merged, hooks, observed, polls,
       started, failed>>

\* paths.py:215-219: unlink raises OSError for some files; the error is
\* swallowed and those files stay.
CleanupKeepsFiles ==
  /\ pc = "cleanup"
  /\ cleanup_ran' = TRUE
  /\ \E kept \in (SUBSET temp_files) \ {{}}: temp_files' = kept
  /\ pc' = "exit"
  /\ outcome' = "returned"
  /\ result' = merged
  /\ flag_at_exit' = cancelled
  /\ UNCHANGED <<log, exc, cause>>
  /\ UNCHANGED <<env, mvars, hvars, writes, flag_at_entry, tvars, cancelled,
       attempt, delays, pre_step,
       diarize_result, pending, diarizer_loaded, transcriber_loaded,
       need_word_timestamps, segments, merged, hooks, observed, polls,
       started, failed>>

\* paths.py:213-214, 34-38: creating or listing the directory raises
\* OSError, which leaves cleanup_temp() and reaches run()'s handler.
CleanupRaises ==
  /\ pc = "cleanup"
  /\ cleanup_ran' = TRUE
  /\ Unwind("OSError", log)
  /\ UNCHANGED <<env, mvars, hvars, writes, flag_at_entry, tvars, cancelled,
       temp_files, attempt, delays,
       pre_step, diarize_result, pending, diarizer_loaded,
       transcriber_loaded, need_word_timestamps, segments, merged, hooks,
       observed, polls, started, failed>>

\* gui/app.py:257-287: after a run has ended the next one is started, with
\* a new Pipeline object (flag unset, no stage notified) on the same
\* temp directory; configuration, environment and the DeviceConfig object
\* are those of the run before.
NextRun ==
  /\ pc = "exit"
  /\ runs < MaxRuns
  /\ runs' = runs + 1
  /\ cancelled' = FALSE
  /\ pc' = "idle"
  /\ log' = <<>>
  /\ outcome' = "none"
  /\ exc' = ""
  /\ cause' = ""
  /\ result' = <<>>
  /\ attempt' = 0
  /\ delays' = <<>>
  /\ pre_step' = 0
  /\ diarize_result' = <<>>
  /\ pending' = ""
  /\ diarizer_loaded' = FALSE
  /\ transcriber_loaded' = FALSE
  /\ need_word_timestamps' = FALSE
  /\ segments' = <<>>
  /\ merged' = <<>>
  /\ hooks' = 0
  /\ observed' = FALSE
  /\ polls' = {}
  /\ started' = {}
  /\ failed' = {}
  /\ cleanup_ran' = FALSE
  /\ flag_at_exit' = FALSE
  /\ effective_beam_size' = 0
  /\ model_size' = ""
  /\ beam_size' = 0
  /\ writes' = {}
  /\ flag_at_entry' = FALSE
  /\ UNCHANGED <<config, has_local_model, downloader_params, temp_files,
       device_config, mvars, hvars>>

\* run() called again on the same Pipeline (pipeline.py:81-95): the locals
\* of run() start afresh, the fields of the instance are what the earlier
\* run and cancel() left.
RunAgain ==
  /\ pc = "exit"
  /\ runs < MaxRuns
  /\ runs' = runs + 1
  /\ pc' = "idle"
  /\ log' = <<>>
  /\ outcome' = "none"
  /\ exc' = ""
  /\ cause' = ""
  /\ result' = <<>>
  /\ attempt' = 0
  /\ delays' = <<>>
  /\ pre_step' = 0
  /\ diarize_result' = <<>>
  /\ pending' = ""
  /\ diarizer_loaded' = FALSE
  /\ transcriber_loaded' = FALSE
  /\ need_word_timestamps' = FALSE
  /\ segments' = <<>>
  /\ merged' = <<>>
  /\ hooks' = 0
  /\ observed' = FALSE
  /\ polls' = {}
  /\ started' = {}
  /\ failed' = {}
  /\ cleanup_ran' = FALSE
  /\ flag_at_exit' = FALSE
  /\ effective_beam_size' = 0
  /\ model_size' = ""
  /\ beam_size' = 0
  /\ flag_at_entry' = FALSE
  /\ UNCHANGED <<config, has_local_model, downloader_params, temp_files,
       device_config, cancelled, writes, mvars, hvars>>

Configs ==
  [url_valid : BOOLEAN, enable_diarization : BOOLEAN, hf_token : {"", "hf_x"},
   use_vad : BOOLEAN, low_power : BOOLEAN, whisper_model : {"", "tiny"},
   beam_size : {0, 3}]

\* The device configuration a Pipeline is constructed with: what detect()
\* returns on a machine with a 24 GB GPU.
DeviceConfigs == {Detect(FALSE, "", "cuda", 240)}

\* Pipeline.__init__ (pipeline.py:71-74) and the state before run().
PInit ==
  /\ config \in Configs
  /\ has_local_model \in BOOLEAN
  /\ downloader_params \in {DownloaderInitParams, DownloaderCallKeywords}
  /\ cancelled = FALSE
  /\ pc = "idle"
  /\ log = <<>>
  /\ outcome = "none"
  /\ exc = ""
  /\ cause = ""
  /\ result = <<>>
  /\ temp_files = {}
  /\ attempt = 0
  /\ delays = <<>>
  /\ pre_step = 0
  /\ diarize_result = <<>>
  /\ pending = ""
  /\ diarizer_loaded = FALSE
  /\ transcriber_loaded = FALSE
  /\ need_word_timestamps = FALSE
  /\ segments = <<>>
  /\ merged = <<>>
  /\ hooks = 0
  /\ observed = FALSE
  /\ polls = {}
  /\ started = {}
  /\ failed = {}
  /\ cleanup_ran = FALSE
  /\ flag_at_exit = FALSE
  /\ device_config \in DeviceConfigs
  /\ effective_beam_size = 0
  /\ model_size = ""
  /\ beam_size = 0
  /\ runs = 1
  /\ writes = {}
  /\ flag_at_entry = FALSE

MIdle ==
  /\ m_pc = "unused"
  /\ m_transcript = [segments |-> <<>>, language |-> "en", duration |-> 0]
  /\ m_diarize = <<>>
  /\ m_result = <<>>
  /\ m_exc = ""

HIdle ==
  /\ h_pc = "unused"
  /\ h_args = <<>>
  /\ h_ret = <<>>

Init == PInit /\ MIdle /\ HIdle

Next ==
  \/ Cancel
  \/ NotifyInit
  \/ CheckCancelled
  \/ StartDownload
  \/ DownloadBegin
  \/ DownloadSucceeds
  \/ DownloadNoWav
  \/ DownloadFails
  \/ StartPreprocess
  \/ PreprocessStep
  \/ PreprocessLoadFails
  \/ PreprocessWrite
  \/ PreprocessWriteFails
  \/ StartDiarize
  \/ SkipDiarizeNoModel
  \/ SkipDiarizeDisabled
  \/ DiarizerLoadModel
  \/ DiarizerLoadFails
  \/ DiarizeHook
  \/ DiarizeReturns
  \/ DiarizeFails
  \/ DiarizeFinally
  \/ TranscribeSetup
  \/ TranscriberLoadModel
  \/ TranscriberLoadFails
  \/ TranscribeSegment
  \/ TranscribeFails
  \/ TranscribeReturns
  \/ MergeStage
  \/ NotifyDone
  \/ CleanupReturns
  \/ CleanupKeepsFiles
  \/ CleanupRaises
  \/ NextRun
  \/ RunAgain

Spec == Init /\ [][Next]_vars


\* ------------------------------------------- ResultMerger.merge on its own
\* Time stamps, labels and speaker counts of the inputs given to merge.
Times == {0, 1, 2}
Labels == {"SPEAKER_0", "SPEAKER_1"}
SpeakerCounts == {1, 3}

Intervals == {iv \in Times \X Times : iv[1] <= iv[2]}

\* Sequences of at most n intervals in non-decreasing, non-overlapping
\* order, all inside [lo, hi].
RECURSIVE Layouts(_, _, _)
Layouts(n, lo, hi) ==
  IF n = 0 THEN {<<>>}
  ELSE {<<>>} \cup
       UNION { { <<iv>> \o rest : rest \in Layouts(n - 1, iv[2], hi) } :
               iv \in {x \in Intervals : lo <= x[1] /\ x[2] <= hi} }

\* A segment over interval iv: without words (its text is "a b"), or with
\* words laid out inside it (its text is the words joined).
SegmentsOver(iv) ==
  { [text |-> IF ws = <<>> THEN <<"a", " ", "b">>
              ELSE Join([k \in 1..Len(ws) |-> <<"a">>]),
     start |-> iv[1], end |-> iv[2],
     words |-> [k \in 1..Len(ws) |-> WordSegment(<<"a">>, ws[k][1], ws[k][2])]] :
    ws \in Layouts(MaxWords, iv[1], iv[2]) }
  \cup
  \* a segment of silence: no words and, after strip(), an empty text
  { [text |-> <<>>, start |-> iv[1], end |-> iv[2], words |-> <<>>] }

RECURSIVE SegmentSeqs(_)
SegmentSeqs(layout) ==
  IF layout = <<>> THEN {<<>>}
  ELSE { <<sg>> \o rest : sg \in SegmentsOver(layout[1]),
                          rest \in SegmentSeqs(Tail(layout)) }

\* The valid transcripts: segments, and the words of each segment, in
\* non-decreasing, non-overlapping time order.
Transcripts ==
  { [segments |-> sq, language |-> "en", duration |-> 2] :
    sq \in UNION { SegmentSeqs(l) : l \in Layouts(MaxMergeSegs, 0, 2) } }

\* A transcript merge cannot process: one of its words has no start time.
UntimedTranscripts ==
  { [segments |-> << [text |-> <<"a">>, start |-> 0, end |-> 2,
                      words |-> <<WordSegment(<<"a">>, None, 2)>>] >>,
     language |-> "en", duration |-> 2] }

\* Diarization spans have positive length.
Spans == { [speaker |-> l, start |-> iv[1], end |-> iv[2]] :
           l \in Labels, iv \in {x \in Intervals : x[1] < x[2]} }

RECURSIVE SpanSeqs(_)
SpanSeqs(n) ==
  IF n = 0 THEN {<<>>}
  ELSE {<<>>} \cup { <<sp>> \o rest : sp \in Spans, rest \in SpanSeqs(n - 1) }

\* None, or a DiarizeResult with any list of at most MaxSpans spans.
Diarizations ==
  {<<>>} \cup { <<[segments |-> sq, num_speakers |-> n]>> :
                sq \in SpanSeqs(MaxSpans), n \in SpeakerCounts }

\* The pipeline is not running under the merge specification.
PUnused ==
  /\ PInit
  /\ config = [url_valid |-> TRUE, enable_diarization |-> TRUE,
               hf_token |-> "", use_vad |-> TRUE, low_power |-> FALSE,
               whisper_model |-> "", beam_size |-> 0]
  /\ has_local_model = FALSE
  /\ downloader_params = DownloaderInitParams

MInit ==
  /\ PUnused
  /\ HIdle
  /\ m_pc = "input"
  /\ m_transcript \in Transcripts \cup UntimedTranscripts
  /\ m_diarize \in Diarizations
  /\ m_result = <<>>
  /\ m_exc = ""

\* A call ResultMerger.merge(transcript, diarize) (merger.py:41-66): the
\* MergedResult is returned, or the exception raised inside the try block
\* is replaced by MergeError.
CallMerge ==
  /\ m_pc = "input"
  /\ LET e == MergeRaises(m_transcript, m_diarize)
     IN IF e = ""
          THEN /\ m_result' = <<Merge(m_transcript, m_diarize)>>
               /\ m_exc' = ""
               /\ m_pc' = "merged"
          ELSE /\ m_result' = <<>>
               /\ m_exc' = MergeErrorOf(e)
               /\ m_pc' = "raised"
  /\ UNCHANGED <<pvars, hvars, m_transcript, m_diarize>>

MNext ==
  \/ CallMerge

SpecMerge == MInit /\ [][MNext]_vars


\* ------------------------------------- ResultMerger._find_speaker_at alone
\* Spans of any length, zero included, in any order and overlapping freely.
FindSpans == { [speaker |-> l, start |-> iv[1], end |-> iv[2]] :
               l \in Labels, iv \in Intervals }

RECURSIVE FindSpanSeqs(_)
FindSpanSeqs(n) ==
  IF n = 0 THEN {<<>>}
  ELSE {<<>>} \cup { <<sp>> \o rest : sp \in FindSpans,
                                      rest \in FindSpanSeqs(n - 1) }

\* Doubled time points: the times and the midpoints between them.
Times2 == {t1 + t2 : t1 \in Times, t2 \in Times}

FInit ==
  /\ PUnused
  /\ MIdle
  /\ h_pc = "find"
  /\ h_args \in [time2 : Times2, diar_segments : FindSpanSeqs(MaxSpans)]
  /\ h_ret = <<>>

\* A call ResultMerger._find_speaker_at(time_point, diar_segments).
CallFindSpeakerAt ==
  /\ h_pc = "find"
  /\ h_ret' = <<FindSpeakerAt(h_args.time2, h_args.diar_segments)>>
  /\ h_pc' = "found"
  /\ UNCHANGED <<pvars, mvars, h_args>>

FNext ==
  \/ CallFindSpeakerAt

SpecFind == FInit /\ [][FNext]_vars

\* ------------------------------------------- DeviceManager on its own
DInit ==
  /\ PUnused
  /\ MIdle
  /\ \/ /\ h_pc = "detect"
        /\ h_args \in [force_cpu : BOOLEAN,
                       whisper_model_override : ModelOverrides,
                       torch : TorchStates, gpu_mem : VramValues]
     \/ /\ h_pc = "select"
        /\ h_args \in [gpu_mem_gb : VramValues]
  /\ h_ret = <<>>

\* A call DeviceManager.detect(force_cpu, whisper_model_override).
CallDetect ==
  /\ h_pc = "detect"
  /\ h_ret' = <<Detect(h_args.force_cpu, h_args.whisper_model_override,
                       h_args.torch, h_args.gpu_mem)>>
  /\ h_pc' = "detected"
  /\ UNCHANGED <<pvars, mvars, h_args>>

\* A call DeviceManager._select_by_vram(gpu_mem_gb).
CallSelectByVram ==
  /\ h_pc = "select"
  /\ h_ret' = <<SelectByVram(h_args.gpu_mem_gb)>>
  /\ h_pc' = "selected"
  /\ UNCHANGED <<pvars, mvars, h_args>>

DNext ==
  \/ CallDetect
  \/ CallSelectByVram

SpecDevice == DInit /\ [][DNext]_vars

\* ------------------------------------------ AppConfig.resolve_hf_token alone
\* Mutant of ResolveHfToken: HUGGING_FACE_HUB_TOKEN is looked at before
\* HF_TOKEN.
ResolveHfTokenHubFirst(cli_token, env_token, hub_token, hf_token) ==
  IF cli_token # <<>> /\ Strip(cli_token) # <<>> THEN Strip(cli_token)
  ELSE IF Strip(hub_token) # <<>> THEN Strip(hub_token)
  ELSE IF Strip(env_token) # <<>> THEN Strip(env_token)
  ELSE IF hf_token # <<>> THEN Strip(hf_token) ELSE <<>>

\* config.py:61-81.  env_token and hub_token are what os.environ.get gives
\* for HF_TOKEN and HUGGING_FACE_HUB_TOKEN, "" when the variable is unset.
ResolveHfToken(cli_token, env_token, hub_token, hf_token) ==
  IF cli_token # <<>> /\ Strip(cli_token) # <<>> THEN Strip(cli_token)
  ELSE IF Strip(env_token) # <<>> THEN Strip(env_token)
  ELSE IF Strip(hub_token) # <<>> THEN Strip(hub_token)
  ELSE IF hf_token # <<>> THEN Strip(hf_token) ELSE <<>>

\* The values of one source whose token is the character c: empty, blank,
\* the token, the token between blanks.
TokenValues(c) == {<<>>, <<" ">>, <<c>>, <<" ", c, " ">>}

TInit ==
  /\ PUnused
  /\ MIdle
  /\ h_pc = "resolve"
  /\ h_args \in [cli_token : TokenValues("c"), env_token : TokenValues("e"),
                 hub_token : TokenValues("h"), hf_token : TokenValues("p")]
  /\ h_ret = <<>>

\* A call AppConfig.resolve_hf_token(cli_token).
CallResolveHfToken ==
  /\ h_pc = "resolve"
  /\ h_ret' = <<ResolveHfToken(h_args.cli_token, h_args.env_token,
                               h_args.hub_token, h_args.hf_token)>>
  /\ h_pc' = "resolved"
  /\ UNCHANGED <<pvars, mvars, h_args>>

TNext ==
  \/ CallResolveHfToken

SpecToken == TInit /\ [][TNext]_vars

\* ----------------------------- SpeakerDiarizer.diarize: label normalisation
\* A raw cluster identity "SPEAKER_<digits>" is held as its digits; Python
\* compares the strings character by character, a proper prefix first.
RECURSIVE LexLess(_, _)
LexLess(a, b) ==
  IF b = <<>> THEN FALSE
  ELSE IF a = <<>> THEN TRUE
  ELSE IF a[1] # b[1] THEN a[1] < b[1]
  ELSE LexLess(Tail(a), Tail(b))

\* sorted(speakers_set)
RECURSIVE SortedSeq(_)
SortedSeq(S) ==
  IF S = {} THEN <<>>
  ELSE LET m == CHOOSE x \in S: \A y \in S \ {x}: LexLess(x, y)
       IN <<m>> \o SortedSeq(S \ {m})

\* The raw identities in the order of their first turn.
RECURSIVE DiscoverySeq(_)
DiscoverySeq(turns) ==
  IF turns = <<>> THEN <<>>
  ELSE LET rest == DiscoverySeq(SubSeq(turns, 1, Len(turns) - 1))
           sp == turns[Len(turns)].speaker
       IN IF \E i \in DOMAIN rest: rest[i] = sp THEN rest ELSE Append(rest, sp)

\* f"SPEAKER_{i}"
CanonicalLabel(i) ==
  CASE i = 0 -> "SPEAKER_0" [] i = 1 -> "SPEAKER_1" [] i = 2 -> "SPEAKER_2"
    [] i = 3 -> "SPEAKER_3"

\* speaker_map of an enumeration: the identity at position i + 1 gets
\* SPEAKER_i.
MapOf(enumeration, sp) ==
  CanonicalLabel((CHOOSE i \in DOMAIN enumeration: enumeration[i] = sp) - 1)

\* Mutant of NormalizeLabels: the identities are numbered in the order of
\* their first turn.
NormalizeLabelsByDiscovery(turns) ==
  [segments |->
     [k \in DOMAIN turns |->
        [speaker |-> MapOf(DiscoverySeq(turns), turns[k].speaker),
         start |-> turns[k].start, end |-> turns[k].end]],
   num_speakers |-> Cardinality({turns[k].speaker : k \in DOMAIN turns})]

\* diarizer.py:143-170: the turns become DiarizeSegments, the identities are
\* numbered in sorted order, the count is that of the distinct identities.
NormalizeLabels(turns) ==
  LET speakers_set == {turns[k].speaker : k \in DOMAIN turns}
  IN [segments |->
        [k \in DOMAIN turns |->
           [speaker |-> MapOf(SortedSeq(speakers_set), turns[k].speaker),
            start |-> turns[k].start, end |-> turns[k].end]],
      num_speakers |-> Cardinality(speakers_set)]

\* Raw identities SPEAKER_00, SPEAKER_01, SPEAKER_10 and SPEAKER_2.
RawSpeakers == {<<0, 0>>, <<0, 1>>, <<1, 0>>, <<2>>}

\* Sequences of at most n turns; turn k lasts from k - 1 to k.
RECURSIVE TurnSeqs(_)
TurnSeqs(n) ==
  IF n = 0 THEN {<<>>}
  ELSE TurnSeqs(n - 1) \cup
       { Append(ts, [speaker |-> sp, start |-> Len(ts), end |-> Len(ts) + 1]) :
         ts \in {x \in TurnSeqs(n - 1) : Len(x) = n - 1}, sp \in RawSpeakers }

ZInit ==
  /\ PUnused
  /\ MIdle
  /\ h_pc = "normalize"
  /\ h_args \in [turns : TurnSeqs(MaxTurns)]
  /\ h_ret = <<>>

\* The tail of SpeakerDiarizer.diarize (diarizer.py:143-170) on the turns
\* the engine produced.
CallNormalizeLabels ==
  /\ h_pc = "normalize"
  /\ h_ret' = <<NormalizeLabels(h_args.turns)>>
  /\ h_pc' = "normalized"
  /\ UNCHANGED <<pvars, mvars, h_args>>

ZNext ==
  \/ CallNormalizeLabels

SpecDiarize == ZInit /\ [][ZNext]_vars

\* ------------------------------------------- ProgressFrame.update_progress
\* Windows are in hundredths of the whole bar, stage ratios in percent, the
\* overall progress in ten-thousandths.
\* STAGE_RANGES (progress_bar.py:10-20)
StageRange(stage) ==
  CASE stage = "INIT" -> <<0, 2>>
    [] stage = "DOWNLOAD" -> <<2, 15>>
    [] stage = "PREPROCESS" -> <<15, 25>>
    [] stage = "DIARIZE" -> <<25, 50>>
    [] stage = "TRANSCRIBE" -> <<50, 90>>
    [] stage = "MERGE" -> <<90, 95>>
    [] stage = "OUTPUT" -> <<95, 100>>
    [] stage = "DONE" -> <<100, 100>>
    [] stage = "ERROR" -> <<0, 0>>

\* Mutant of UpdateProgress: the ratio is applied to the end of the window
\* and not to its width.
UpdateProgressOfEnd(stage, stage_progress) ==
  StageRange(stage)[2] * Min2(stage_progress, 100)

\* progress_bar.py:101-102: the value given to the progress bar.
UpdateProgress(stage, stage_progress) ==
  LET start == StageRange(stage)[1]
      end == StageRange(stage)[2]
  IN 100 * start + (end - start) * Min2(stage_progress, 100)

\* Stage ratios given to update_progress; 150 is above the whole.
StageRatios == {0, 10, 20, 30, 40, 50, 60, 70, 80, 90, 100, 150}

GInit ==
  /\ PUnused
  /\ MIdle
  /\ h_pc = "update"
  /\ h_args \in [stage : PipelineStage, stage_progress : StageRatios]
  /\ h_ret = <<>>

\* A call update_progress(stage, stage_progress, message).
CallUpdateProgress ==
  /\ h_pc = "update"
  /\ h_ret' = <<UpdateProgress(h_args.stage, h_args.stage_progress)>>
  /\ h_pc' = "shown"
  /\ UNCHANGED <<pvars, mvars, h_args>>

GNext ==
  \/ CallUpdateProgress

SpecProgress == GInit /\ [][GNext]_vars

\* ================================================================= claims
StagesOf(lg) == {lg[i].stage : i \in DOMAIN lg}
Exited == pc = "exit"

\* C1: when no cancellation is ever requested and every collaborator call
\* succeeds, run() notifies DONE and returns the MergedResult that merge
\* produced; it neither notifies ERROR nor raises.
C1_SuccessReturnsResult ==
  (Exited /\ ~flag_at_exit /\ failed = {}) =>
    /\ outcome = "returned"
    /\ merged # <<>>
    /\ result = merged
    /\ "DONE" \in StagesOf(log)
    /\ "ERROR" \notin StagesOf(log)

\* C2: the stages passed to the stage callback never go back in the order
\* INIT, DOWNLOAD, PREPROCESS, DIARIZE, TRANSCRIBE, MERGE, OUTPUT, DONE
\* (ERROR may follow any of them), and a DIARIZE notification comes only
\* after a PREPROCESS notification and never after a TRANSCRIBE one.
C2_StageOrder ==
  /\ \A i, j \in DOMAIN log:
       i < j => StageRank(log[i].stage) <= StageRank(log[j].stage)
  /\ \A j \in DOMAIN log:
       log[j].stage = "DIARIZE" =>
         /\ \E i \in 1..(j - 1): log[i].stage = "PREPROCESS"
         /\ \A i \in 1..(j - 1): log[i].stage # "TRANSCRIBE"

\* A finished run that notified every stage from INIT to DONE.
C2_Witness ==
  /\ Exited
  /\ {"INIT", "DOWNLOAD", "PREPROCESS", "DIARIZE", "TRANSCRIBE", "MERGE",
      "DONE"} \subseteq StagesOf(log)

C4_CancelBeatsFailure ==
  (Exited /\ outcome = "raised" /\ flag_at_exit) => exc = "CancelledError"

\* C5: when run() ends because cancellation was observed, cleanup_temp has
\* run, no file is left in the temp directory and every model loaded during
\* the run (diarizer, transcriber) has been released.
C5_CancelStillCleansUp ==
  (Exited /\ exc = "CancelledError") =>
    /\ cleanup_ran
    /\ temp_files = {}
    /\ ~diarizer_loaded
    /\ ~transcriber_loaded

C7_DiarizeOnlyWhenPossible ==
  LET cond == config.enable_diarization /\
              (config.hf_token # "" \/ has_local_model)
      decided == "DIARIZE" \in StagesOf(log)
  IN /\ "diarize" \in started => cond
     /\ decided => ("diarize" \in started <=> cond)
     /\ (decided /\ ~cond) =>
          /\ \A i \in DOMAIN log:
               log[i].stage = "DIARIZE" =>
                 /\ log[i].progress = 100
                 /\ log[i].msg \in {"skip_no_model", "skip_disabled"}
          /\ Exited => ("transcribe" \in started \/ exc = "CancelledError")

\* Diarization enabled without token and local model: skipped, and the
\* transcriber was started.
C7_Witness ==
  /\ config.enable_diarization
  /\ config.hf_token = ""
  /\ ~has_local_model
  /\ Note("DIARIZE", 100, "skip_no_model") \in {log[i] : i \in DOMAIN log}
  /\ "diarize" \notin started
  /\ "transcribe" \in started

StageErrors ==
  {"DownloadError", "PreprocessError", "TranscribeError", "MergeError"}

\* The stage call that raises the error, and the stage it is notified under.
CallOf(e) ==
  CASE e = "DownloadError" -> "download" [] e = "PreprocessError" -> "preprocess"
    [] e = "TranscribeError" -> "transcribe" [] e = "MergeError" -> "merge"
StageOfCall(c) ==
  CASE c = "download" -> "DOWNLOAD" [] c = "preprocess" -> "PREPROCESS"
    [] c = "diarize" -> "DIARIZE" [] c = "transcribe" -> "TRANSCRIBE"
    [] c = "merge" -> "MERGE"

C21_BoundedRetries ==
  /\ attempt \in 0..MAX_RETRIES
  /\ Len(delays) = (IF attempt = 0 THEN 0 ELSE attempt - 1)
  /\ \A k \in DOMAIN delays: delays[k] = RETRY_DELAY * k
  /\ \A k \in 1..(Len(delays) - 1): delays[k] < delays[k + 1]
  /\ pc \in {"download_begin", "download_attempt"} =>
       "audio_raw.wav" \notin temp_files \/ runs > 1

\* Every attempt failed: MAX_RETRIES attempts, a delay after all but the
\* last, and DownloadError.
C21_Witness ==
  /\ Exited
  /\ exc = "DownloadError"
  /\ attempt = MAX_RETRIES
  /\ delays = <<RETRY_DELAY, 2 * RETRY_DELAY>>

HasSpans == diarize_result # <<>> /\ diarize_result[1].segments # <<>>

C29_StickyFlag ==
  /\ ~cancelled
  /\ [](flag_at_entry =>
          /\ cancelled
          /\ pc \in {"check_init", "exit"}
          /\ StagesOf(log) = {"INIT"}
          /\ started = {}
          /\ Exited => (exc = "CancelledError" /\ polls = {"check_init"}))
  /\ [][/\ (cancelled /\ ~cancelled') => (runs' = runs + 1 /\ writes' = {})
        /\ (~cancelled /\ cancelled') =>
             (writes' = writes \cup {<<"_cancelled", CallerOfCancel>>} /\ pc' = pc)
        /\ (writes' = {} /\ runs' = runs + 1) => ~cancelled']_vars

\* A second run(), entered with the flag up, has ended at the first check
\* with the INIT notification alone.
C29_Witness ==
  /\ Exited
  /\ runs = 2
  /\ flag_at_entry
  /\ exc = "CancelledError"
  /\ log = <<Note("INIT", 0, "start")>>
  /\ started = {}

\* The diarizer began to load its model and did not finish loading it.
DiarizerLoadFailed ==
  /\ pc # "diarize_load"
  /\ \E i \in DOMAIN log: log[i] = Note("DIARIZE", 0, "load")
  /\ \A i \in DOMAIN log: log[i] # Note("DIARIZE", 100, "loaded")
FallbackNotified ==
  \E i \in DOMAIN log: log[i] = Note("DIARIZE", 100, "fallback")

\* C30: when the diarizer fails to load its model, the fallback is not
\* notified, TRANSCRIBE is never started and the run ends by raising an
\* error; the fallback is notified only after a DiarizeError.
C30_LoadFailureAborts ==
  /\ DiarizerLoadFailed =>
       /\ "ModelLoadError" \in failed
       /\ ~FallbackNotified
       /\ "transcribe" \notin started
       /\ "TRANSCRIBE" \notin StagesOf(log)
       /\ pc \in {"diarize_finally", "exit"}
       /\ Exited => (outcome = "raised" /\
                     exc \in {"ModelLoadError", "YouTubeSTTError"})
  /\ FallbackNotified => "DiarizeError" \in failed

C30_Witness ==
  /\ Exited
  /\ DiarizerLoadFailed
  /\ failed = {"ModelLoadError"}
  /\ outcome = "raised"
  /\ "transcribe" \notin started
  /\ ~cancelled

\* -------------------------------------------------------- claims on merge
Merged == m_pc = "merged"
OutSegs == m_result[1].segments
SpansGiven == m_diarize # <<>> /\ m_diarize[1].segments # <<>>

RECURSIVE ConcatWords(_)
ConcatWords(segs) ==
  IF segs = <<>> THEN <<>> ELSE segs[1].words \o ConcatWords(Tail(segs))

OrderedByStart(segs) ==
  \A i, j \in DOMAIN segs: i < j => segs[i].start <= segs[j].start
NonOverlapping(segs) ==
  \A i, j \in DOMAIN segs: i < j => segs[i].end <= segs[j].start

\* C10 as stated: for every valid input (spans absent, empty or non-empty)
\* the returned segments are ordered by start, pairwise non-overlapping, and
\* their word lists concatenated are the input words, with the one synthetic
\* word of each word-less segment, each exactly once and in input order.
C10_WordsCoveredOnce ==
  Merged =>
    /\ OrderedByStart(OutSegs)
    /\ NonOverlapping(OutSegs)
    /\ ConcatWords(OutSegs) = AllWords(m_transcript.segments)

\* C10 as amended: ordered and non-overlapping always; with at least one
\* span the word lists concatenated are the input words with the synthetic
\* word of each word-less segment; with spans absent or empty each input
\* segment is returned with its own word list, so a word-less segment
\* contributes no word (its text stays in the segment).
C10_WordsCoveredOnceAmended ==
  Merged =>
    /\ OrderedByStart(OutSegs)
    /\ NonOverlapping(OutSegs)
    /\ SpansGiven => ConcatWords(OutSegs) = AllWords(m_transcript.segments)
    /\ ~SpansGiven =>
         /\ Len(OutSegs) = Len(m_transcript.segments)
         /\ \A i \in DOMAIN OutSegs:
              /\ OutSegs[i].words = m_transcript.segments[i].words
              /\ OutSegs[i].text = m_transcript.segments[i].text

\* A merge with spans that gave two segments from a transcript holding a
\* word-less segment and a segment with words.
C10_Witness ==
  /\ Merged
  /\ SpansGiven
  /\ Len(OutSegs) = 2
  /\ \E i \in DOMAIN m_transcript.segments: m_transcript.segments[i].words = <<>>
  /\ \E i \in DOMAIN m_transcript.segments: m_transcript.segments[i].words # <<>>

\* The text and bounds of each segment, in order.
Core(segs) ==
  [i \in DOMAIN segs |-> <<segs[i].text, segs[i].start, segs[i].end>>]

\* A diarization result with one SPEAKER_0 span over the whole duration.
WholeSpan(t) ==
  << [segments |-> << [speaker |-> "SPEAKER_0", start |-> 0,
                       end |-> t.duration] >>,
      num_speakers |-> 1] >>

\* C11: merge(transcript, None) and merge(transcript, one SPEAKER_0 span
\* covering the whole duration) return the same sequence of segments: the
\* same number of segments, each with the same text, start and end.
C11_NoneEqualsWholeSpan ==
  (Merged /\ m_diarize = WholeSpan(m_transcript)) =>
    Core(OutSegs) = Core(Merge(m_transcript, <<>>).segments)

\* The speaker a word resolves to: _find_speaker_at at its midpoint.
SpeakerOfWord(w) == FindSpeakerAt(w.start + w.end, m_diarize[1].segments)
WordTexts(ws) == [k \in DOMAIN ws |-> ws[k].word]

\* What C13 says of the runs, with the text of a run left open.
RunsOfOneSpeaker ==
  /\ ConcatWords(OutSegs) = AllWords(m_transcript.segments)
  /\ \A i \in DOMAIN OutSegs:
       /\ OutSegs[i].words # <<>>
       /\ \A k \in DOMAIN OutSegs[i].words:
            SpeakerOfWord(OutSegs[i].words[k]) = OutSegs[i].speaker
       /\ OutSegs[i].start = OutSegs[i].words[1].start
       /\ OutSegs[i].end = OutSegs[i].words[Len(OutSegs[i].words)].end
  /\ \A i \in 1..(Len(OutSegs) - 1):
       OutSegs[i].speaker # OutSegs[i + 1].speaker

\* C13 as stated: with non-empty spans the merged segments are the maximal
\* runs of consecutive words (across transcript segments) resolving to the
\* same speaker; consecutive segments differ in speaker; a segment starts
\* with its first word, ends with its last word, holds the run as its word
\* list, and its text is the words of the run joined by single spaces.
C13_MaximalRuns ==
  (Merged /\ SpansGiven) =>
    /\ RunsOfOneSpeaker
    /\ \A i \in DOMAIN OutSegs:
         OutSegs[i].text = Join(WordTexts(OutSegs[i].words))

\* C13 as amended: the same, the text being the words of the run joined by
\* single spaces with leading and trailing blanks then stripped.
C13_MaximalRunsAmended ==
  (Merged /\ SpansGiven) =>
    /\ RunsOfOneSpeaker
    /\ \A i \in DOMAIN OutSegs:
         OutSegs[i].text = Strip(Join(WordTexts(OutSegs[i].words)))

\* Two transcript segments merged into two runs, one of them holding three
\* words and so crossing the boundary between the transcript segments.
C13_Witness ==
  /\ Merged
  /\ SpansGiven
  /\ Len(m_transcript.segments) = 2
  /\ Len(OutSegs) = 2
  /\ \E i \in DOMAIN OutSegs: Len(OutSegs[i].words) = 3

\* C14: given a diarization result with at least one span, the returned
\* num_speakers is that result's num_speakers whatever labels appear in the
\* output, also for an empty transcript, whose segment list is empty; with
\* spans absent or empty num_speakers is 1.
C14_SpeakerCountPreserved ==
  Merged =>
    /\ SpansGiven => m_result[1].num_speakers = m_diarize[1].num_speakers
    /\ (SpansGiven /\ m_transcript.segments = <<>>) => OutSegs = <<>>
    /\ ~SpansGiven => m_result[1].num_speakers = 1

\* The diarizer counted three speakers and the output uses one label.
C14_Witness ==
  /\ Merged
  /\ SpansGiven
  /\ m_diarize[1].num_speakers = 3
  /\ Cardinality({OutSegs[i].speaker : i \in DOMAIN OutSegs}) = 1

\* C15: merge has two outcomes: it returns a complete MergedResult (every
\* input word, or every input segment, is in it), or it raises MergeError
\* and no segment list reaches the caller; an exception raised inside is
\* never seen as itself.
C15_MergeReturnsOrRaisesMergeError ==
  /\ m_pc = "merged" =>
       /\ m_exc = ""
       /\ m_result # <<>>
       /\ SpansGiven => ConcatWords(OutSegs) = AllWords(m_transcript.segments)
       /\ ~SpansGiven => Len(OutSegs) = Len(m_transcript.segments)
  /\ m_pc = "raised" =>
       /\ m_exc = "MergeError"
       /\ m_result = <<>>
  /\ m_exc \in {"", "MergeError"}

\* merge was given spans and a word without start time, and raised.
C15_Witness ==
  /\ m_pc = "raised"
  /\ m_exc = "MergeError"
  /\ SpansGiven
  /\ MergeRaises(m_transcript, m_diarize) = "TypeError"

\* -------------------------------------------- claims on _find_speaker_at
Found == h_pc = "found"
Contains(sp, time2) == 2 * sp.start <= time2 /\ time2 <= 2 * sp.end
ContainingIdx ==
  {i \in DOMAIN h_args.diar_segments :
     Contains(h_args.diar_segments[i], h_args.time2)}
FirstOf(idx) == CHOOSE i \in idx: \A j \in idx: i <= j

\* C12: when at least one span has start <= t <= end, _find_speaker_at
\* returns the label of the first such span in list order, whatever span is
\* nearest by its end points; a point on the shared boundary of two
\* adjacent spans resolves to the earlier-listed of the two.
C12_ContainingSpanWins ==
  (Found /\ ContainingIdx # {}) =>
    h_ret[1] = h_args.diar_segments[FirstOf(ContainingIdx)].speaker

\* The point lies on the boundary shared by two adjacent spans with
\* different labels, and the call returned the label of the first.
C12_Witness ==
  /\ Found
  /\ Len(h_args.diar_segments) = 2
  /\ h_args.diar_segments[1].speaker # h_args.diar_segments[2].speaker
  /\ h_args.diar_segments[1].start < h_args.diar_segments[1].end
  /\ h_args.diar_segments[1].end = h_args.diar_segments[2].start
  /\ h_args.diar_segments[2].start < h_args.diar_segments[2].end
  /\ h_args.time2 = 2 * h_args.diar_segments[1].end
  /\ h_ret[1] = h_args.diar_segments[1].speaker

\* Doubled distance from the point of the call to the nearer end of span i.
EndDistance(i) ==
  Min2(Abs(h_args.time2 - 2 * h_args.diar_segments[i].start),
       Abs(h_args.time2 - 2 * h_args.diar_segments[i].end))
NearestIdx ==
  {i \in DOMAIN h_args.diar_segments :
     \A j \in DOMAIN h_args.diar_segments: EndDistance(i) <= EndDistance(j)}

\* C26: for a point inside no span, _find_speaker_at returns the label of
\* the span whose nearer end is nearest to the point, and of the spans that
\* are equally near the one that comes first in the list.
C26_NearestSpanFirstOnTies ==
  (Found /\ ContainingIdx = {} /\ h_args.diar_segments # <<>>) =>
    h_ret[1] = h_args.diar_segments[FirstOf(NearestIdx)].speaker

\* The point is as far from the first span as from the second, inside
\* neither, the labels differ, and the call returned the first label.
C26_Witness ==
  /\ Found
  /\ ContainingIdx = {}
  /\ Len(h_args.diar_segments) = 2
  /\ h_args.diar_segments[1].speaker # h_args.diar_segments[2].speaker
  /\ EndDistance(1) = EndDistance(2)
  /\ h_ret[1] = h_args.diar_segments[1].speaker

\* ------------------------------------------------ claims on DeviceManager
Detected == h_pc = "detected"
Selected == h_pc = "selected"

\* C19: in detect a non-empty model override is the returned whisper_model
\* in every branch (forced CPU, GPU detected, CPU fallback) for every
\* accelerator memory; force_cpu gives device cpu, compute type int8 and
\* beam size 1 for every accelerator memory, the memory table having no
\* part in the result.
C19_OverrideAndForcedCpuWin ==
  Detected =>
    /\ h_args.whisper_model_override # "" =>
         h_ret[1].whisper_model = h_args.whisper_model_override
    /\ h_args.force_cpu =>
         /\ h_ret[1].device = "cpu"
         /\ h_ret[1].compute_type = "int8"
         /\ h_ret[1].recommended_beam_size = 1
         /\ h_ret[1].whisper_model = OrSmall(h_args.whisper_model_override)
         /\ h_ret[1].gpu_memory_gb = 0

\* An override on a machine whose GPU has 24 GB, with and without force_cpu.
C19_Witness ==
  /\ Detected
  /\ h_args.whisper_model_override = "tiny"
  /\ h_args.torch = "cuda"
  /\ h_args.gpu_mem = 240
  /\ h_ret[1].whisper_model = "tiny"
  /\ h_ret[1].device = "cuda"

ModelRank(m) ==
  CASE m = "small" -> 1 [] m = "distil-large-v3" -> 2 [] m = "large-v3" -> 3
PrecisionRank(c) == CASE c = "int8" -> 1 [] c = "float16" -> 2

\* C20: the memory table is monotonic: for m1 <= m2 the profile of m2 has a
\* beam width, a precision (int8 < float16) and a model (small <
\* distil-large-v3 < large-v3) at least those of m1; below 6 GB the profile
\* is (small, int8, 1), that of forced CPU without override.
C20_TableMonotonic ==
  Selected =>
    /\ \A m1 \in VramValues:
         m1 <= h_args.gpu_mem_gb =>
           /\ SelectByVram(m1)[3] <= h_ret[1][3]
           /\ PrecisionRank(SelectByVram(m1)[2]) <= PrecisionRank(h_ret[1][2])
           /\ ModelRank(SelectByVram(m1)[1]) <= ModelRank(h_ret[1][1])
    /\ h_args.gpu_mem_gb < 60 =>
         /\ h_ret[1] = <<"small", "int8", 1>>
         /\ LET cpu == Detect(TRUE, "", "cuda", h_args.gpu_mem_gb)
            IN h_ret[1] = <<cpu.whisper_model, cpu.compute_type,
                            cpu.recommended_beam_size>>

\* The table was read for 12 GB and gave the top profile.
C20_Witness ==
  /\ Selected
  /\ h_args.gpu_mem_gb = 120
  /\ h_ret[1] = <<"large-v3", "float16", 5>>

\* ------------------------------------------- claims on resolve_hf_token
Resolved == h_pc = "resolved"
TokenSources ==
  <<h_args.cli_token, h_args.env_token, h_args.hub_token, h_args.hf_token>>
NonBlank == {i \in DOMAIN TokenSources : Strip(TokenSources[i]) # <<>>}

\* C22: resolve_hf_token returns the first non-blank value, trimmed, in the
\* order call-time argument, HF_TOKEN, HUGGING_FACE_HUB_TOKEN, persisted
\* hf_token; a later source is returned only when every earlier one is
\* empty or blank, and the empty string only when all four are.
C22_FirstNonBlankToken ==
  Resolved =>
    IF NonBlank = {} THEN h_ret[1] = <<>>
    ELSE h_ret[1] = Strip(TokenSources[FirstOf(NonBlank)])

\* Argument and HF_TOKEN blank, both later sources set: the trimmed
\* HUGGING_FACE_HUB_TOKEN is returned.
C22_Witness ==
  /\ Resolved
  /\ h_args.cli_token = <<" ">>
  /\ h_args.env_token = <<>>
  /\ h_args.hub_token = <<" ", "h", " ">>
  /\ h_args.hf_token = <<"p">>
  /\ h_ret[1] = <<"h">>

\* ------------------------------------------------ claims on diarize labels
Normalized == h_pc = "normalized"
RawOf(turns) == {turns[k].speaker : k \in DOMAIN turns}
RankIn(S, sp) == Cardinality({x \in S : LexLess(x, sp)})

\* C23: with N distinct raw identities the labels of the result are exactly
\* SPEAKER_0..SPEAKER_{N-1}, the i-th identity in sorted order is SPEAKER_i,
\* num_speakers is N, and the turns in any other order give each identity
\* the same label.
C23_CanonicalLabels ==
  Normalized =>
    LET turns == h_args.turns
        out == h_ret[1]
        N == Cardinality(RawOf(turns))
    IN /\ {out.segments[k].speaker : k \in DOMAIN out.segments} =
            {CanonicalLabel(i) : i \in 0..(N - 1)}
       /\ Len(out.segments) = Len(turns)
       /\ \A k \in DOMAIN turns:
            /\ out.segments[k].speaker =
                 CanonicalLabel(RankIn(RawOf(turns), turns[k].speaker))
            /\ out.segments[k].start = turns[k].start
            /\ out.segments[k].end = turns[k].end
       /\ out.num_speakers = N
       /\ \A p \in Permutations(DOMAIN turns):
            LET other == NormalizeLabels([k \in DOMAIN turns |-> turns[p[k]]])
            IN \A k \in DOMAIN turns:
                 other.segments[k].speaker = out.segments[p[k]].speaker

\* Three turns of SPEAKER_2, SPEAKER_10, SPEAKER_2: the identity met first
\* sorts last and is SPEAKER_1.
C23_Witness ==
  /\ Normalized
  /\ Len(h_args.turns) = 3
  /\ h_args.turns[1].speaker = <<2>>
  /\ h_args.turns[2].speaker = <<1, 0>>
  /\ h_args.turns[3].speaker = <<2>>
  /\ h_ret[1].segments[1].speaker = "SPEAKER_1"
  /\ h_ret[1].segments[2].speaker = "SPEAKER_0"
  /\ h_ret[1].num_speakers = 2

\* ------------------------------------------------- claims on the progress
Shown == h_pc = "shown"
WorkStages ==
  {"INIT", "DOWNLOAD", "PREPROCESS", "DIARIZE", "TRANSCRIBE", "MERGE",
   "OUTPUT"}

\* C25: for a stage ratio r of at most 1 the overall progress is
\* start + (end - start) * r and lies inside the window of the stage; the
\* windows of INIT..OUTPUT begin at 0, end at 1, each has start < end, and
\* each ends where the window of the next stage begins.
C25_LinearInWindow ==
  /\ Shown /\ h_args.stage_progress <= 100 =>
       LET w == StageRange(h_args.stage)
       IN /\ h_ret[1] = 100 * w[1] + (w[2] - w[1]) * h_args.stage_progress
          /\ 100 * w[1] <= h_ret[1]
          /\ h_ret[1] <= 100 * w[2]
  /\ \A st \in WorkStages:
       /\ StageRange(st)[1] < StageRange(st)[2]
       /\ StageRank(st) = 0 => StageRange(st)[1] = 0
       /\ st = "OUTPUT" => StageRange(st)[2] = 100
       /\ \A nx \in WorkStages:
            StageRank(nx) = StageRank(st) + 1 =>
              StageRange(st)[2] = StageRange(nx)[1]

\* Half of TRANSCRIBE is shown as 70 % of the whole.
C25_Witness ==
  /\ Shown
  /\ h_args.stage = "TRANSCRIBE"
  /\ h_args.stage_progress = 50
  /\ h_ret[1] = 7000

=============================================================================
